---- MODULE Spec2Model ----
(***************************************************************************)
(* Model of the CORAL domain-generalization example                        *)
(* (examples/domain_generalization/classification/coral.py) and of the     *)
(* MixStyle ResNet factory (dglib/generalization/mixstyle/models/resnet.py)*)
(*                                                                         *)
(* Its components, each with its own specification:                        *)
(*   Spec      main(): phases, epochs, training iterations, validation,    *)
(*             checkpoints                                                 *)
(*   SpecPair  two runs of main() that see the same source-validation      *)
(*             results and independent target results                      *)
(*   SpecLoss  one iteration of train(): chunking and loss accumulation    *)
(*   SpecNet   _resnet_with_mix_style(): construction, pretrained load,    *)
(*             forward pass                                                *)
(***************************************************************************)
EXTENDS Integers, Sequences, FiniteSets, TLC

\* ---------------------------------------------------------------- bounds
MaxEpochs == 2
MaxIters == 2
MaxDomains == 3
MaxValSamples == 3
MaxTestSamples == 1
SmallBatchSize == 2

\* --------------------------------------------------- program constants
\* argparse default of --batch-size
DefaultBatchSize == 36

VARIABLES
    \* ---- main(): command line
    phase, epochs, iters_per_epoch, num_domains, batch_size,
    val_loader, test_loader,
    \* ---- main(): control
    pc, epoch, i,
    \* ---- classifier / optimizer / scheduler
    weights, training, grad, opt_steps, sched_steps,
    \* ---- checkpoint directory and model selection
    ckpt, acc1, best_val_acc1, best_test_acc1,
    \* ---- history (what the run did, for stating properties)
    hist, written, passes, split_truth, evaluated,
    \* ---- second run of main() compared in SpecPair
    twin,
    \* ---- one iteration of train(): the loss
    lpc, trade_off, y_all, f_all, labels_all, domain_i, domain_j,
    loss_ce, loss_penalty, loss, ce_calls, pair_calls, ce_sum, pair_sum,
    \* ---- _resnet_with_mix_style()
    npc, resnet_class, mix_layers, pretrained, model_keys, registry,
    apply_layers, params, loaded, fetches, raised, trace

mainVars == <<phase, epochs, iters_per_epoch, num_domains, batch_size,
              val_loader, test_loader, pc, epoch, i,
              weights, training, grad, opt_steps, sched_steps,
              ckpt, acc1, best_val_acc1, best_test_acc1,
              hist, written, passes, split_truth, evaluated, twin>>

lossVars == <<lpc, trade_off, y_all, f_all, labels_all, domain_i, domain_j,
              loss_ce, loss_penalty, loss, ce_calls, pair_calls, ce_sum, pair_sum>>

netVars == <<npc, resnet_class, mix_layers, pretrained, model_keys, registry,
             apply_layers, params, loaded, fetches, raised, trace>>

vars == <<mainVars, lossVars, netVars>>

\* ------------------------------------------------------------ rationals
\* Accuracies and losses are Python floats; they are modelled as exact
\* fractions <<numerator, denominator>> in lowest terms, denominator > 0.
RECURSIVE GCD(_, _)
GCD(a, b) == IF b = 0 THEN a ELSE GCD(b, a % b)

Abs(n) == IF n < 0 THEN -n ELSE n

Frac(n, d) ==
    LET g == GCD(Abs(n), Abs(d))
        s == IF d < 0 THEN -1 ELSE 1
    IN  <<(s * n) \div g, (s * d) \div g>>

Zero == <<0, 1>>
FracAdd(a, b) == Frac(a[1] * b[2] + b[1] * a[2], a[2] * b[2])
FracScale(a, k) == Frac(a[1] * k, a[2])
FracDivInt(a, k) == Frac(a[1], a[2] * k)
FracLess(a, b) == a[1] * b[2] < b[1] * a[2]
\* Python's max(a, b): b only when b > a
FracMax(a, b) == IF FracLess(a, b) THEN b ELSE a

FracDiv(a, b) == Frac(a[1] * b[2], a[2] * b[1])

\* --------------------------------------------------------- torch.chunk
\* A tensor is modelled by its rows along dim 0; row p of the logits, of the
\* embeddings and of the labels all belong to the sample at batch position p.
Rows(B) == [p \in 1..B |-> p - 1]

Min2(a, b) == IF a < b THEN a ELSE b

\* Tensor.split(n, dim=0) in place of chunk: chunks of n rows each
ChunkAsSplit(t, n) ==
    LET size == Len(t)
        num == (size + n - 1) \div n
    IN  [k \in 1..num |-> SubSeq(t, (k - 1) * n + 1, Min2(k * n, size))]

\* Tensor.chunk(n, dim=0): chunks of ceil(size / n) rows, the last one
\* shorter, and fewer than n chunks when the rows run out.
Chunk(t, n) ==
    LET size == Len(t)
        split_size == (size + n - 1) \div n
        num == IF size = 0 THEN n ELSE (size + split_size - 1) \div split_size
    IN  [k \in 1..num |->
            SubSeq(t, (k - 1) * split_size + 1, Min2(k * split_size, size))]

\* num_domains * (num_domains - 1) / 2, a true division
PairDivisor(D) == Frac(D * (D - 1), 2)

\* What stops an iteration of train() before the optimizer is reached:
\* y_all[domain_i] past the chunks returned, or the division of the
\* untouched integer 0 by a pair count of 0.0.
TrainIterError(D, B) ==
    IF Len(Chunk(Rows(B), D)) < D THEN "IndexError"
    ELSE IF PairDivisor(D) = Zero THEN "ZeroDivisionError"
    ELSE "none"

\* ------------------------------------------- validate(): meters, loaders
\* DataLoader(dataset, batch_size, shuffle=False): full batches, then the rest
Loader(N, bs) ==
    LET nb == (N + bs - 1) \div bs
    IN  [k \in 1..nb |-> IF k * bs <= N THEN bs ELSE N - (k - 1) * bs]

\* What the model can get right on a loader: a count of correct top-1
\* predictions for every batch
Outcomes(loader) ==
    LET largest == IF Len(loader) = 0 THEN 0 ELSE loader[1]
    IN  {c \in [1..Len(loader) -> 0..largest] :
            \A k \in 1..Len(loader) : c[k] <= loader[k]}

\* accuracy(output, target): percentage of correct predictions in the batch
accuracy(correct, n) == Frac(100 * correct, n)

\* AverageMeter
NewMeter == [sum |-> Zero, count |-> 0, avg |-> Zero]
MeterUpdate(m, val, n) ==
    LET s == FracAdd(m.sum, FracScale(val, n))
        c == m.count + n
    IN  [sum |-> s, count |-> c, avg |-> FracDivInt(s, c)]

RECURSIVE ValidateLoop(_, _, _, _)
ValidateLoop(loader, correct, k, top1) ==
    IF k > Len(loader) THEN top1
    ELSE ValidateLoop(loader, correct, k + 1,
                      MeterUpdate(top1, accuracy(correct[k], loader[k]), loader[k]))

\* validate() without model.eval(): the model stays in the mode it was in
ValidateKeepsMode(loader, correct, tr) ==
    [training |-> tr,
     passes   |-> IF Len(loader) = 0 THEN {}
                  ELSE {[by |-> "validate", training |-> tr, grad |-> FALSE]},
     ret      |-> ValidateLoop(loader, correct, 1, NewMeter).avg]

\* validate(val_loader, model, args) on a model whose training flag is tr:
\* the flag it leaves, the forward passes it runs, the value it returns.
validate(loader, correct, tr) ==
    LET mode == FALSE
    IN  [training |-> mode,
         passes   |-> IF Len(loader) = 0 THEN {}
                      ELSE {[by |-> "validate", training |-> mode, grad |-> FALSE]},
         ret      |-> ValidateLoop(loader, correct, 1, NewMeter).avg]

RECURSIVE SumSeq(_)
SumSeq(s) == IF Len(s) = 0 THEN 0 ELSE s[1] + SumSeq(Tail(s))

\* ------------------------------------------------ main(): the run state
\* a checkpoint path at which nothing has been saved
NoFile == -3
\* weights are named by the number of optimizer steps that produced them;
\* checkpoints left in the log directory by an earlier run hold other weights
PriorLatest == -2
PriorBest == -1

\* The part of main()'s state that model selection reads and writes
Sel == [weights |-> weights, ckpt |-> ckpt, acc1 |-> acc1,
        best_val_acc1 |-> best_val_acc1, best_test_acc1 |-> best_test_acc1,
        hist |-> hist]

SetSel(r) ==
    /\ weights' = r.weights
    /\ ckpt' = r.ckpt
    /\ acc1' = r.acc1
    /\ best_val_acc1' = r.best_val_acc1
    /\ best_test_acc1' = r.best_test_acc1
    /\ hist' = r.hist

\* optimizer.step()
optimizer_step(s) == [s EXCEPT !.weights = @ + 1]

\* acc1 = validate(val_loader, classifier, args)
source_validated(s, a) ==
    [s EXCEPT !.acc1 = a,
              !.hist = Append(@, [w |-> s.weights, acc |-> a, promoted |-> FALSE])]

\* torch.save(classifier.state_dict(), logger.get_checkpoint_path('latest'))
save_latest(s) == [s EXCEPT !.ckpt.latest = s.weights]

\* promotion on acc1 >= best_val_acc1: a tie replaces 'best'
PromoteOnTie(s) ==
    LET better == ~FracLess(s.acc1, s.best_val_acc1)
    IN  [s EXCEPT !.ckpt.best = IF better THEN s.ckpt.latest ELSE @,
                  !.best_val_acc1 = FracMax(s.acc1, @),
                  !.hist[Len(s.hist)].promoted = better]

\* promotion decided against the best target accuracy
PromoteOnTarget(s) ==
    LET better == FracLess(s.best_test_acc1, s.acc1)
    IN  [s EXCEPT !.ckpt.best = IF better THEN s.ckpt.latest ELSE @,
                  !.best_val_acc1 = FracMax(s.acc1, @),
                  !.hist[Len(s.hist)].promoted = better]

\* if acc1 > best_val_acc1: shutil.copy(latest, best)
\* best_val_acc1 = max(acc1, best_val_acc1)
promote_best(s) ==
    LET better == FracLess(s.best_val_acc1, s.acc1)
    IN  [s EXCEPT !.ckpt.best = IF better THEN s.ckpt.latest ELSE @,
                  !.best_val_acc1 = FracMax(s.acc1, @),
                  !.hist[Len(s.hist)].promoted = better]

\* best_test_acc1 = max(best_test_acc1, validate(test_loader, classifier, args))
target_validated(s, a) == [s EXCEPT !.best_test_acc1 = FracMax(@, a)]

\* the final evaluation on the weights of 'latest', the last epoch's
LoadLatest(s) == [s EXCEPT !.weights = s.ckpt.latest]

\* classifier.load_state_dict(torch.load(logger.get_checkpoint_path('best')))
load_best(s) == [s EXCEPT !.weights = s.ckpt.best]

\* acc1 = validate(test_loader, classifier, args)
target_tested(s, a) == [s EXCEPT !.acc1 = a]

\* The second run takes the same step on its own state
TwinStep(r) == twin' = IF twin.paired THEN r ELSE twin

\* ------------------------------------------------------------ main()
Phases == {"train", "test", "analysis"}

InitMainArgs ==
    /\ phase \in Phases
    /\ epochs \in 0..MaxEpochs
    /\ iters_per_epoch \in 0..MaxIters
    /\ num_domains \in 1..MaxDomains
    /\ batch_size \in {SmallBatchSize, DefaultBatchSize}
    /\ val_loader \in {Loader(N, batch_size) : N \in 1..MaxValSamples}
    /\ test_loader \in {Loader(N, batch_size) : N \in 1..MaxTestSamples}

InitMainState ==
    /\ pc = "start"
    /\ epoch = 0
    /\ i = 0
    /\ weights = 0
    /\ training = TRUE
    /\ grad = "none"
    /\ opt_steps = 0
    /\ sched_steps = 0
    /\ ckpt \in {[latest |-> NoFile, best |-> NoFile],
                 [latest |-> PriorLatest, best |-> PriorBest]}
    /\ acc1 = Zero
    /\ best_val_acc1 = Zero
    /\ best_test_acc1 = Zero
    /\ hist = <<>>
    /\ written = {}
    /\ passes = {}
    /\ split_truth = <<0, 0>>
    /\ evaluated = <<>>

TwinOf(on) == [paired |-> on, weights |-> weights, ckpt |-> ckpt, acc1 |-> acc1,
               best_val_acc1 |-> best_val_acc1,
               best_test_acc1 |-> best_test_acc1, hist |-> hist]

InitMain == InitMainArgs /\ InitMainState /\ twin = TwinOf(FALSE)
\* the two runs compared are training runs (or test runs)
InitPair == InitMainArgs /\ phase # "analysis" /\ InitMainState /\ twin = TwinOf(TRUE)

args == <<phase, epochs, iters_per_epoch, num_domains, batch_size,
          val_loader, test_loader>>
selVars == <<weights, ckpt, acc1, best_val_acc1, best_test_acc1, hist>>

\* line 97: if args.phase == 'test'
BranchPhase ==
    /\ pc = "start"
    /\ pc' = IF phase = "test" THEN "test_load" ELSE "epoch_loop"
    /\ UNCHANGED <<lossVars, netVars, args, epoch, i, selVars, training, grad, opt_steps,
                   sched_steps, written, passes, split_truth, evaluated, twin>>

\* lines 98-99
TestLoad ==
    /\ pc = "test_load"
    /\ IF ckpt.best = NoFile
          THEN pc' = "crashed" /\ UNCHANGED <<selVars, twin>>
          ELSE pc' = "test_eval" /\ SetSel(load_best(Sel)) /\ TwinStep(load_best(twin))
    /\ UNCHANGED <<lossVars, netVars, args, epoch, i, training, grad, opt_steps, sched_steps,
                   written, passes, split_truth, evaluated>>

\* A call of validate() on the target loader whose result goes to acc1
TargetTest(next) ==
    \E c \in Outcomes(test_loader) :
      \E c2 \in IF twin.paired THEN Outcomes(test_loader) ELSE {c} :
        LET v == validate(test_loader, c, training)
            v2 == validate(test_loader, c2, training)
        IN  /\ pc' = next
            /\ SetSel(target_tested(Sel, v.ret))
            /\ TwinStep(target_tested(twin, v2.ret))
            /\ training' = v.training
            /\ passes' = passes \cup v.passes
            /\ split_truth' = <<SumSeq(c), SumSeq(test_loader)>>
            /\ evaluated' = Append(evaluated, weights)
            /\ UNCHANGED <<lossVars, netVars, args, epoch, i, grad, opt_steps, sched_steps, written>>

\* lines 100-102
TestEval == pc = "test_eval" /\ TargetTest("done")

\* line 107: for epoch in range(args.epochs)
EpochLoop ==
    /\ pc = "epoch_loop"
    /\ pc' = IF epoch < epochs THEN "train_enter" ELSE "final_load"
    /\ UNCHANGED <<lossVars, netVars, args, epoch, i, selVars, training, grad, opt_steps,
                   sched_steps, written, passes, split_truth, evaluated, twin>>

\* line 150: model.train()
TrainMode(tr) == TRUE

TrainEnter ==
    /\ pc = "train_enter"
    /\ training' = TrainMode(training)
    /\ i' = 0
    /\ pc' = "iter_loop"
    /\ UNCHANGED <<lossVars, netVars, args, epoch, selVars, grad, opt_steps, sched_steps,
                   written, passes, split_truth, evaluated, twin>>

\* line 153: for i in range(args.iters_per_epoch)
IterLoop ==
    /\ pc = "iter_loop"
    /\ pc' = IF i < iters_per_epoch THEN "forward" ELSE "validate_src"
    /\ UNCHANGED <<lossVars, netVars, args, epoch, i, selVars, training, grad, opt_steps,
                   sched_steps, written, passes, split_truth, evaluated, twin>>

\* lines 154-159: y_all, f_all = model(x_all)
Forward ==
    /\ pc = "forward"
    /\ passes' = passes \cup {[by |-> "train", training |-> training, grad |-> TRUE]}
    /\ pc' = "loss"
    /\ UNCHANGED <<lossVars, netVars, args, epoch, i, selVars, training, grad, opt_steps,
                   sched_steps, written, split_truth, evaluated, twin>>

\* lines 164-193: the loss of the iteration (its steps are those of SpecLoss)
ComputeLoss ==
    /\ pc = "loss"
    /\ pc' = IF TrainIterError(num_domains, batch_size) = "none"
                THEN "zero_grad" ELSE "crashed"
    /\ UNCHANGED <<lossVars, netVars, args, epoch, i, selVars, training, grad, opt_steps,
                   sched_steps, written, passes, split_truth, evaluated, twin>>

\* line 196
ZeroGrad ==
    /\ pc = "zero_grad"
    /\ grad' = "zero"
    /\ pc' = "backward"
    /\ UNCHANGED <<lossVars, netVars, args, epoch, i, selVars, training, opt_steps,
                   sched_steps, written, passes, split_truth, evaluated, twin>>

\* line 197
Backward ==
    /\ pc = "backward"
    /\ grad' = "computed"
    /\ pc' = "optimizer_step"
    /\ UNCHANGED <<lossVars, netVars, args, epoch, i, selVars, training, opt_steps,
                   sched_steps, written, passes, split_truth, evaluated, twin>>

\* line 198
OptimizerStep ==
    /\ pc = "optimizer_step"
    /\ SetSel(optimizer_step(Sel))
    /\ TwinStep(optimizer_step(twin))
    /\ opt_steps' = opt_steps + 1
    /\ pc' = "lr_scheduler_step"
    /\ UNCHANGED <<lossVars, netVars, args, epoch, i, training, grad,
                   sched_steps, written, passes, split_truth, evaluated>>

\* the scheduler stepped once per epoch, with the first iteration only
SchedulerPerEpoch(it, steps) ==
    [i |-> it + 1, sched_steps |-> IF it = 0 THEN steps + 1 ELSE steps]

\* Where train() goes after optimizer.step() at iteration it: line 199,
\* lr_scheduler.step(), then the next iteration
AfterOptimizerStep(it, steps) == [i |-> it + 1, sched_steps |-> steps + 1]

LrSchedulerStep ==
    /\ pc = "lr_scheduler_step"
    /\ LET r == AfterOptimizerStep(i, sched_steps)
       IN  i' = r.i /\ sched_steps' = r.sched_steps
    /\ pc' = "iter_loop"
    /\ UNCHANGED <<lossVars, netVars, args, epoch, selVars, training, grad, opt_steps,
                   written, passes, split_truth, evaluated, twin>>

\* line 115
ValidateSource ==
    /\ pc = "validate_src"
    /\ \E c \in Outcomes(val_loader) :
         LET v == validate(val_loader, c, training)
         IN  /\ SetSel(source_validated(Sel, v.ret))
             /\ TwinStep(source_validated(twin, v.ret))
             /\ training' = v.training
             /\ passes' = passes \cup v.passes
             /\ split_truth' = <<SumSeq(c), SumSeq(val_loader)>>
    /\ pc' = "save_latest"
    /\ UNCHANGED <<lossVars, netVars, args, epoch, i, grad, opt_steps, sched_steps, written,
                   evaluated>>

\* line 118
SaveLatest ==
    /\ pc = "save_latest"
    /\ SetSel(save_latest(Sel))
    /\ TwinStep(save_latest(twin))
    /\ written' = written \cup {"latest"}
    /\ pc' = "promote"
    /\ UNCHANGED <<lossVars, netVars, args, epoch, i, training, grad, opt_steps, sched_steps,
                   passes, split_truth, evaluated>>

\* lines 119-121
PromoteBest ==
    /\ pc = "promote"
    /\ SetSel(promote_best(Sel))
    /\ TwinStep(promote_best(twin))
    /\ written' = IF promote_best(Sel).hist[Len(hist)].promoted
                  THEN written \cup {"best"} ELSE written
    /\ pc' = "validate_tgt"
    /\ UNCHANGED <<lossVars, netVars, args, epoch, i, training, grad, opt_steps, sched_steps,
                   passes, split_truth, evaluated>>

\* line 125, then the next epoch
ValidateTarget ==
    /\ pc = "validate_tgt"
    /\ \E c \in Outcomes(test_loader) :
        \E c2 \in IF twin.paired THEN Outcomes(test_loader) ELSE {c} :
         LET v == validate(test_loader, c, training)
             v2 == validate(test_loader, c2, training)
         IN  /\ SetSel(target_validated(Sel, v.ret))
             /\ TwinStep(target_validated(twin, v2.ret))
             /\ training' = v.training
             /\ passes' = passes \cup v.passes
             /\ split_truth' = <<SumSeq(c), SumSeq(test_loader)>>
    /\ epoch' = epoch + 1
    /\ pc' = "epoch_loop"
    /\ UNCHANGED <<lossVars, netVars, args, i, grad, opt_steps, sched_steps, written, evaluated>>

\* line 128
FinalLoad ==
    /\ pc = "final_load"
    /\ IF ckpt.best = NoFile
          THEN pc' = "crashed" /\ UNCHANGED <<selVars, twin>>
          ELSE pc' = "final_eval" /\ SetSel(load_best(Sel)) /\ TwinStep(load_best(twin))
    /\ UNCHANGED <<lossVars, netVars, args, epoch, i, training, grad, opt_steps, sched_steps,
                   written, passes, split_truth, evaluated>>

\* lines 129-132
FinalEval == pc = "final_eval" /\ TargetTest("done")

Next ==
    \/ BranchPhase
    \/ TestLoad
    \/ TestEval
    \/ EpochLoop
    \/ TrainEnter
    \/ IterLoop
    \/ Forward
    \/ ComputeLoss
    \/ ZeroGrad
    \/ Backward
    \/ OptimizerStep
    \/ LrSchedulerStep
    \/ ValidateSource
    \/ SaveLatest
    \/ PromoteBest
    \/ ValidateTarget
    \/ FinalLoad
    \/ FinalEval

\* ------------------------------------------- train(): one iteration's loss
MaxBatch == 6
MaxTradeOff == 2
MaxTerm == 2

\* values F.cross_entropy and correlation_alignment_loss can return
TermVals == {Frac(v, 1) : v \in 1..MaxTerm}

LossIdle ==
    /\ lpc = "idle"
    /\ trade_off = 1
    /\ y_all = <<>>
    /\ f_all = <<>>
    /\ labels_all = <<>>
    /\ domain_i = 0
    /\ domain_j = 0
    /\ loss_ce = Zero
    /\ loss_penalty = Zero
    /\ loss = Zero
    /\ ce_calls = <<>>
    /\ pair_calls = <<>>
    /\ ce_sum = Zero
    /\ pair_sum = Zero

\* the iteration after y_all, f_all = model(x_all), line 159
InitLoss ==
    /\ num_domains \in 1..MaxDomains
    /\ batch_size \in 1..MaxBatch
    /\ trade_off \in 0..MaxTradeOff
    /\ lpc = "chunk"
    /\ y_all = Rows(batch_size)
    /\ f_all = Rows(batch_size)
    /\ labels_all = Rows(batch_size)
    /\ domain_i = 0
    /\ domain_j = 0
    /\ loss_ce = Zero
    /\ loss_penalty = Zero
    /\ loss = Zero
    /\ ce_calls = <<>>
    /\ pair_calls = <<>>
    /\ ce_sum = Zero
    /\ pair_sum = Zero

lossArgs == <<num_domains, batch_size, trade_off>>
mainRest == <<phase, epochs, iters_per_epoch, val_loader, test_loader, pc, epoch, i,
              weights, training, grad, opt_steps, sched_steps,
              ckpt, acc1, best_val_acc1, best_test_acc1,
              hist, written, passes, split_truth, evaluated, twin>>

\* lines 165-167
LossChunk ==
    /\ lpc = "chunk"
    /\ y_all' = Chunk(y_all, num_domains)
    /\ f_all' = Chunk(f_all, num_domains)
    /\ labels_all' = Chunk(labels_all, num_domains)
    /\ domain_i' = 0
    /\ lpc' = "domain_loop"
    /\ UNCHANGED <<lossArgs, mainRest, netVars, domain_j, loss_ce, loss_penalty,
                   loss, ce_calls, pair_calls, ce_sum, pair_sum>>

\* lines 172-177: for domain_i in range(num_domains): the classification term
LossDomain ==
    /\ lpc = "domain_loop"
    /\ IF domain_i >= num_domains
          THEN /\ lpc' = "normalize"
               /\ UNCHANGED <<loss_ce, ce_calls, ce_sum, domain_j>>
       ELSE IF domain_i + 1 > Len(y_all) \/ domain_i + 1 > Len(labels_all)
          THEN /\ lpc' = "IndexError"
               /\ UNCHANGED <<loss_ce, ce_calls, ce_sum, domain_j>>
       ELSE \E v \in TermVals :
               /\ loss_ce' = FracAdd(loss_ce, v)
               /\ ce_calls' = Append(ce_calls, [y |-> y_all[domain_i + 1],
                                                labels |-> labels_all[domain_i + 1]])
               /\ ce_sum' = FracAdd(ce_sum, v)
               /\ domain_j' = domain_i + 1
               /\ lpc' = "pair_loop"
    /\ UNCHANGED <<lossArgs, mainRest, netVars, y_all, f_all, labels_all, domain_i,
                   loss_penalty, loss, pair_calls, pair_sum>>

\* The domains the inner loop of iteration di pairs domain di with:
\* range(domain_i + 1, num_domains), line 179
PairRange(di, D) == (di + 1)..(D - 1)

\* lines 179-182: for domain_j in range(domain_i + 1, num_domains)
LossPair ==
    /\ lpc = "pair_loop"
    /\ IF domain_j \notin PairRange(domain_i, num_domains)
          THEN /\ domain_i' = domain_i + 1
               /\ lpc' = "domain_loop"
               /\ UNCHANGED <<loss_penalty, pair_calls, pair_sum, domain_j>>
       ELSE IF domain_j + 1 > Len(f_all)
          THEN /\ lpc' = "IndexError"
               /\ UNCHANGED <<loss_penalty, pair_calls, pair_sum, domain_j, domain_i>>
       ELSE \E v \in TermVals :
               /\ loss_penalty' = FracAdd(loss_penalty, v)
               /\ pair_calls' = Append(pair_calls, <<f_all[domain_i + 1],
                                                     f_all[domain_j + 1]>>)
               /\ pair_sum' = FracAdd(pair_sum, v)
               /\ domain_j' = domain_j + 1
               /\ lpc' = "pair_loop"
               /\ UNCHANGED domain_i
    /\ UNCHANGED <<lossArgs, mainRest, netVars, y_all, f_all, labels_all,
                   loss_ce, loss, ce_calls, ce_sum>>

\* lines 185-186
LossNormalize ==
    /\ lpc = "normalize"
    /\ loss_ce' = FracDiv(loss_ce, Frac(num_domains, 1))
    /\ IF PairDivisor(num_domains) = Zero
          THEN lpc' = "ZeroDivisionError" /\ UNCHANGED loss_penalty
          ELSE /\ loss_penalty' = FracDiv(loss_penalty, PairDivisor(num_domains))
               /\ lpc' = "combine"
    /\ UNCHANGED <<lossArgs, mainRest, netVars, y_all, f_all, labels_all, domain_i,
                   domain_j, loss, ce_calls, pair_calls, ce_sum, pair_sum>>

\* line 188: the loss that loss.backward() differentiates
LossCombine ==
    /\ lpc = "combine"
    /\ loss' = FracAdd(loss_ce, FracScale(loss_penalty, trade_off))
    /\ lpc' = "backward"
    /\ UNCHANGED <<lossArgs, mainRest, netVars, y_all, f_all, labels_all, domain_i,
                   domain_j, loss_ce, loss_penalty, ce_calls, pair_calls, ce_sum,
                   pair_sum>>

NextLoss ==
    \/ LossChunk
    \/ LossDomain
    \/ LossPair
    \/ LossNormalize
    \/ LossCombine

\* ------------------------------------------------ _resnet_with_mix_style()
MaxMixLayers == 2

LayerNames == {"layer1", "layer2", "layer3", "layer4"}
ClassNames == {"ResNet", "ReidResNet", "DenseNet"}
KeyNames == {"conv1.weight", "fc.weight", "mixStyleModule.state"}

RECURSIVE SeqsUpTo(_, _)
SeqsUpTo(S, n) ==
    IF n = 0 THEN {<<>>}
    ELSE LET shorter == SeqsUpTo(S, n - 1)
         IN  shorter \cup {Append(q, x) : q \in shorter, x \in S}

NetIdle ==
    /\ npc = "idle"
    /\ resnet_class = "ResNet"
    /\ mix_layers = [none |-> TRUE, list |-> <<>>]
    /\ pretrained = FALSE
    /\ model_keys = {}
    /\ registry = {}
    /\ apply_layers = <<>>
    /\ params = <<>>
    /\ loaded = {}
    /\ fetches = 0
    /\ raised = "none"
    /\ trace = <<>>

InitNet ==
    /\ npc = "start"
    /\ resnet_class \in ClassNames
    /\ mix_layers \in {[none |-> TRUE, list |-> <<>>]}
                      \cup {[none |-> FALSE, list |-> q] :
                                q \in SeqsUpTo(LayerNames, MaxMixLayers)}
    /\ pretrained \in BOOLEAN
    /\ model_keys \in SUBSET KeyNames
    /\ registry \in SUBSET KeyNames
    /\ apply_layers = <<>>
    /\ params = <<>>
    /\ loaded = {}
    /\ fetches = 0
    /\ raised = "none"
    /\ trace = <<>>

netArgs == <<resnet_class, mix_layers, pretrained, model_keys, registry>>

\* line 28
available_resnet_class == {"ResNet", "ReidResNet"}

\* lines 25-29: the default, and the check of the backbone class
NetCheckClass ==
    /\ npc = "start"
    /\ mix_layers' = IF mix_layers.none THEN [none |-> FALSE, list |-> <<>>]
                     ELSE mix_layers
    /\ IF resnet_class \in available_resnet_class
          THEN npc' = "construct" /\ UNCHANGED raised
          ELSE npc' = "raised" /\ raised' = "AssertionError"
    /\ UNCHANGED <<mainVars, lossVars, resnet_class, pretrained, model_keys,
                   registry, apply_layers, params, loaded, fetches, trace>>

\* an allowed list that also names the last stage
InitAcceptsLayer4(layers) ==
    \A k \in 1..Len(layers) : layers[k] \in {"layer1", "layer2", "layer3", "layer4"}

\* lines 35-36: for layer in mix_layers: assert layer in [...]
InitAccepts(layers) ==
    \A k \in 1..Len(layers) : layers[k] \in {"layer1", "layer2", "layer3"}

\* lines 31-37 and 60-61: ResNetWithMixStyleModule(mix_layers=mix_layers, ...)
NetConstruct ==
    /\ npc = "construct"
    /\ IF InitAccepts(mix_layers.list)
          THEN /\ apply_layers' = mix_layers.list
               /\ params' = [k \in model_keys |-> "constructed"]
               /\ npc' = "built"
               /\ UNCHANGED raised
          ELSE /\ npc' = "raised"
               /\ raised' = "AssertionError"
               /\ UNCHANGED <<apply_layers, params>>
    /\ UNCHANGED <<mainVars, lossVars, netArgs, loaded, fetches, trace>>

\* Module.load_state_dict(state_dict, strict): copies the entries whose key
\* the module has; with strict, a missing or unexpected key raises
LoadStateDict(p, sd, strict) ==
    LET missing == DOMAIN p \ DOMAIN sd
        unexpected == DOMAIN sd \ DOMAIN p
    IN  [params |-> [k \in DOMAIN p |-> IF k \in DOMAIN sd THEN sd[k] ELSE p[k]],
         raised |-> IF strict /\ (missing \cup unexpected) # {}
                    THEN "RuntimeError" ELSE "none"]

\* the load left at its default, strict=True
LoadPretrainedStrict(p, ref) ==
    LET model_dict == p
        pretrained_dict == [k \in {x \in DOMAIN ref : x \in DOMAIN model_dict} |-> ref[k]]
        r == LoadStateDict(p, pretrained_dict, TRUE)
    IN  [params |-> r.params, raised |-> r.raised, loaded |-> DOMAIN pretrained_dict]

\* lines 63-68 on a model with parameters p and the fetched reference set ref
LoadPretrained(p, ref) ==
    LET model_dict == p
        pretrained_dict == [k \in {x \in DOMAIN ref : x \in DOMAIN model_dict} |-> ref[k]]
        r == LoadStateDict(p, pretrained_dict, FALSE)
    IN  [params |-> r.params, raised |-> r.raised, loaded |-> DOMAIN pretrained_dict]

\* lines 62-69
NetPretrained ==
    /\ npc = "built"
    /\ IF pretrained
          THEN LET r == LoadPretrained(params, [k \in registry |-> "pretrained"])
               IN  /\ fetches' = fetches + 1
                   /\ params' = r.params
                   /\ loaded' = r.loaded
                   /\ raised' = r.raised
                   /\ npc' = IF r.raised = "none" THEN "returned" ELSE "raised"
          ELSE /\ npc' = "returned"
               /\ UNCHANGED <<fetches, params, loaded, raised>>
    /\ UNCHANGED <<mainVars, lossVars, netArgs, apply_layers, trace>>

InList(x, layers) == \E k \in 1..Len(layers) : layers[k] = x

\* the check after layer2 copied from the one after layer1
ForwardCopiedCheck(cls, layers) ==
    LET s1 == <<"conv1", "bn1">>
        s2 == IF cls # "ReidResNet" THEN Append(s1, "relu") ELSE s1
        s3 == Append(s2, "maxpool")
        s4 == Append(s3, "layer1")
        s5 == IF InList("layer1", layers) THEN Append(s4, "mixStyleModule") ELSE s4
        s6 == Append(s5, "layer2")
        s7 == IF InList("layer1", layers) THEN Append(s6, "mixStyleModule") ELSE s6
        s8 == Append(s7, "layer3")
        s9 == IF InList("layer3", layers) THEN Append(s8, "mixStyleModule") ELSE s8
    IN  Append(s9, "layer4")

\* lines 39-58: the modules forward() calls, in order
forward(cls, layers) ==
    LET s1 == <<"conv1", "bn1">>
        s2 == IF cls # "ReidResNet" THEN Append(s1, "relu") ELSE s1
        s3 == Append(s2, "maxpool")
        s4 == Append(s3, "layer1")
        s5 == IF InList("layer1", layers) THEN Append(s4, "mixStyleModule") ELSE s4
        s6 == Append(s5, "layer2")
        s7 == IF InList("layer2", layers) THEN Append(s6, "mixStyleModule") ELSE s6
        s8 == Append(s7, "layer3")
        s9 == IF InList("layer3", layers) THEN Append(s8, "mixStyleModule") ELSE s8
    IN  Append(s9, "layer4")

\* one forward pass of the model returned
NetForward ==
    /\ npc = "returned"
    /\ trace' = forward(resnet_class, apply_layers)
    /\ npc' = "forwarded"
    /\ UNCHANGED <<mainVars, lossVars, netArgs, apply_layers, params, loaded,
                   fetches, raised>>

NextNet ==
    \/ NetCheckClass
    \/ NetConstruct
    \/ NetPretrained
    \/ NetForward

\* ------------------------------------------------------- specifications
MainParked ==
    /\ phase = "train"
    /\ epochs = 1
    /\ iters_per_epoch = 1
    /\ val_loader = <<1>>
    /\ test_loader = <<1>>
    /\ pc = "loss"
    /\ epoch = 0
    /\ i = 0
    /\ weights = 0
    /\ training = TRUE
    /\ grad = "none"
    /\ opt_steps = 0
    /\ sched_steps = 0
    /\ ckpt = [latest |-> NoFile, best |-> NoFile]
    /\ acc1 = Zero
    /\ best_val_acc1 = Zero
    /\ best_test_acc1 = Zero
    /\ hist = <<>>
    /\ written = {}
    /\ passes = {[by |-> "train", training |-> TRUE, grad |-> TRUE]}
    /\ split_truth = <<0, 0>>
    /\ evaluated = <<>>
    /\ twin = TwinOf(FALSE)

InitSpec == InitMain /\ LossIdle /\ NetIdle
InitSpecPair == InitPair /\ LossIdle /\ NetIdle
InitSpecLoss == MainParked /\ InitLoss /\ NetIdle
InitSpecNet ==
    MainParked /\ num_domains = 2 /\ batch_size = DefaultBatchSize /\ LossIdle /\ InitNet

Spec == InitSpec /\ [][Next]_vars
SpecPair == InitSpecPair /\ [][Next]_vars
SpecLoss == InitSpecLoss /\ [][NextLoss]_vars
SpecNet == InitSpecNet /\ [][NextNet]_vars

\* ================================================================ claims
\* ---- helpers for stating the claims about main()
RECURSIVE BestOf(_, _)
\* the greatest validation accuracy among the first k epochs (0 before any)
BestOf(h, k) == IF k = 0 THEN Zero ELSE FracMax(BestOf(h, k - 1), h[k].acc)

\* states in which the bookkeeping of the last validated epoch is complete
EpochSettled == Len(hist) > 0 /\ pc \notin {"save_latest", "promote"}

\* epoch k is the earliest epoch whose validation accuracy is the running best
EarliestBest(k) ==
    /\ hist[k].acc = best_val_acc1
    /\ \A j \in 1..(k - 1) : hist[j].acc # best_val_acc1

\* the order validate, save, promote, and promotion exactly on improvement
EpochOrder ==
    /\ pc = "save_latest" =>
          /\ Len(hist) = epoch + 1
          /\ hist[Len(hist)].w = weights
          /\ acc1 = hist[Len(hist)].acc
    /\ pc = "promote" => ckpt.latest = weights /\ hist[Len(hist)].w = weights
    /\ EpochSettled =>
          /\ ckpt.latest = hist[Len(hist)].w
          /\ best_val_acc1 = BestOf(hist, Len(hist))
          /\ \A k \in 1..Len(hist) :
                hist[k].promoted <=> FracLess(BestOf(hist, k - 1), hist[k].acc)

\* C3 as stated: in a train-phase run every epoch validates, saves 'latest',
\* then promotes exactly on improvement; after the epoch 'latest' holds the
\* latest epoch's weights, the running best is the greatest accuracy seen, and
\* 'best', whenever the file exists, holds the weights of the earliest epoch
\* that reached the running best.
C3_BestWheneverExists ==
    phase = "train" =>
        /\ EpochOrder
        /\ (EpochSettled /\ ckpt.best # NoFile) =>
              \E k \in 1..Len(hist) : EarliestBest(k) /\ ckpt.best = hist[k].w

\* C3 amended: the same, with 'best' bound to the earliest best epoch
\* whenever this run has written it (a 'best' left by an earlier run stays
\* until an epoch's accuracy exceeds 0).
C3_BestWhenWritten ==
    phase = "train" =>
        /\ EpochOrder
        /\ (EpochSettled /\ "best" \in written) =>
              \E k \in 1..Len(hist) : EarliestBest(k) /\ ckpt.best = hist[k].w
        /\ (EpochSettled /\ "best" \notin written) =>
              /\ best_val_acc1 = Zero
              /\ ckpt.best \in {NoFile, PriorBest}

C3_Witness ==
    /\ phase = "train"
    /\ pc = "epoch_loop"
    /\ Len(hist) = 2
    /\ hist[1].acc = hist[2].acc
    /\ hist[1].promoted
    /\ hist[1].w # hist[2].w
    /\ ckpt.best = hist[1].w
    /\ ckpt.latest = hist[2].w

\* C4: two runs that see the same source-validation accuracies and
\* independent target accuracies agree, in every state, on the weights, on
\* both checkpoints, on the running best and on every promotion decision; and
\* a target evaluation changes none of these.
C4_TargetNeverSelects ==
    /\ [](twin.paired =>
            /\ twin.weights = weights
            /\ twin.ckpt = ckpt
            /\ twin.best_val_acc1 = best_val_acc1
            /\ twin.hist = hist)
    /\ [][pc = "validate_tgt" =>
            /\ weights' = weights
            /\ ckpt' = ckpt
            /\ best_val_acc1' = best_val_acc1
            /\ hist' = hist
            /\ acc1' = acc1]_vars

C4_Witness ==
    /\ twin.paired
    /\ phase = "train"
    /\ pc = "done"
    /\ Len(hist) = 2
    /\ twin.best_test_acc1 # best_test_acc1
    /\ hist[2].promoted

InIteration == pc \in {"iter_loop", "forward", "loss", "zero_grad", "backward",
                       "optimizer_step", "lr_scheduler_step"}
AfterTraining == pc \in {"validate_src", "save_latest", "promote", "validate_tgt"}

\* C5: optimizer and scheduler are stepped once per completed iteration, the
\* optimizer on fresh gradients and the scheduler right after it; after e
\* epochs both counts are e * iters_per_epoch, and a finished training run
\* has stepped the scheduler epochs * iters_per_epoch times.
C5_StepPerIteration ==
    /\ pc = "backward" => grad = "zero"
    /\ pc = "optimizer_step" => grad = "computed"
    /\ opt_steps = IF pc = "lr_scheduler_step" THEN sched_steps + 1 ELSE sched_steps
    /\ pc \notin {"test_eval", "final_eval", "done"} => weights = opt_steps
    /\ InIteration => sched_steps = epoch * iters_per_epoch + i
    /\ AfterTraining => sched_steps = (epoch + 1) * iters_per_epoch
    /\ pc \in {"epoch_loop", "train_enter"} => sched_steps = epoch * iters_per_epoch
    /\ (phase # "test" /\ pc \in {"final_load", "final_eval", "done"}) =>
          sched_steps = epochs * iters_per_epoch
    /\ sched_steps <= epochs * iters_per_epoch

C5_Witness ==
    /\ phase = "train"
    /\ pc = "done"
    /\ epochs = 2
    /\ iters_per_epoch = 2
    /\ sched_steps = 4
    /\ opt_steps = 4

\* C9 as stated: outside phase 'train' no optimizer or scheduler step is made
\* and no checkpoint is written, and phase 'test' evaluates the weights of the
\* 'best' checkpoint.
C9_OnlyTrainPhaseTrains ==
    /\ phase # "train" => opt_steps = 0 /\ sched_steps = 0 /\ written = {}
    /\ (phase = "test" /\ pc = "done") => evaluated = <<ckpt.best>>

SplitMean == IF split_truth[2] = 0 THEN Zero
             ELSE Frac(100 * split_truth[1], split_truth[2])
ValidateCall == pc \in {"validate_src", "validate_tgt", "test_eval", "final_eval"}

\* C10: validate() runs its forward passes in evaluation mode without
\* gradients, train() runs its own in training mode, validate() leaves the
\* parameters and the optimizer and scheduler alone, and the value it returns,
\* which main() compares for selection, is the top-1 accuracy over the split.
C10_ValidateIsInference ==
    /\ [](/\ \A p \in passes :
               /\ p.by = "validate" => ~p.training /\ ~p.grad
               /\ p.by = "train" => p.training /\ p.grad
          /\ pc \in {"save_latest", "promote"} => acc1 = SplitMean)
    /\ [][ValidateCall =>
            /\ weights' = weights
            /\ opt_steps' = opt_steps
            /\ sched_steps' = sched_steps
            /\ grad' = grad
            /\ ~training']_vars

C10_Witness ==
    /\ pc = "promote"
    /\ epoch = 1
    /\ Len(val_loader) = 2
    /\ acc1 = Frac(100, 3)
    /\ [by |-> "train", training |-> TRUE, grad |-> TRUE] \in passes
    /\ [by |-> "validate", training |-> FALSE, grad |-> FALSE] \in passes

\* ---- helpers for stating the claims about the loss
\* the rows of domain k (1-based) in a batch of B rows over D domains
DomainRows(k, B, D) == [p \in 1..(B \div D) |-> (k - 1) * (B \div D) + p - 1]

Mean(total, n) == FracDiv(total, Frac(n, 1))

\* the pairs of distinct domains, each once
UnorderedPairs(D) == {q \in (1..D) \X (1..D) : q[1] < q[2]}

LossTerms ==
    LET D == num_domains
        B == batch_size
    IN  /\ Len(ce_calls) = D
        /\ \A k \in 1..D : ce_calls[k] = [y |-> DomainRows(k, B, D),
                                          labels |-> DomainRows(k, B, D)]
        /\ 2 * Len(pair_calls) = D * (D - 1)
        /\ {pair_calls[n] : n \in 1..Len(pair_calls)}
             = {<<DomainRows(q[1], B, D), DomainRows(q[2], B, D)>> :
                    q \in UnorderedPairs(D)}

LossValue ==
    /\ loss_ce = Mean(ce_sum, Len(ce_calls))
    /\ loss_penalty = Mean(pair_sum, Len(pair_calls))
    /\ loss = FracAdd(Mean(ce_sum, Len(ce_calls)),
                      FracScale(Mean(pair_sum, Len(pair_calls)), trade_off))

\* C1 as stated: with any number of domains an iteration on a batch of equal
\* domain shares reaches loss.backward() with D classification terms, one per
\* domain chunk, D(D-1)/2 alignment terms, one per unordered pair, and
\* loss = mean(CE) + trade_off * mean(CORAL).
C1_LossForAnyDomainCount ==
    batch_size % num_domains = 0 =>
        /\ lpc \notin {"IndexError", "ZeroDivisionError"}
        /\ lpc = "backward" => LossTerms /\ LossValue

\* C1 from two domains on: the same statement holds of every iteration over
\* at least two source domains.
C1_LossFromTwoDomains ==
    (batch_size % num_domains = 0 /\ num_domains >= 2) =>
        /\ lpc \notin {"IndexError", "ZeroDivisionError"}
        /\ lpc = "backward" => LossTerms /\ LossValue

C1_ReachedFromTwoDomains ==
    /\ lpc = "backward"
    /\ num_domains = 3
    /\ batch_size = 6
    /\ trade_off = 2
    /\ Len(pair_calls) = 3
    /\ loss = Frac(5, 1)

\* C2: when the batch size is a multiple of the domain count, the logits, the
\* embeddings and the labels are each split into D chunks of B/D rows, and
\* chunk k of each holds the rows at batch positions k*B/D .. (k+1)*B/D - 1.
C2_ChunksAlignWithDomains ==
    (lpc \notin {"idle", "chunk"} /\ batch_size % num_domains = 0) =>
        \A t \in {y_all, f_all, labels_all} :
            /\ Len(t) = num_domains
            /\ \A k \in 1..num_domains :
                  /\ Len(t[k]) = batch_size \div num_domains
                  /\ t[k] = DomainRows(k, batch_size, num_domains)

C2_Witness ==
    /\ lpc = "backward"
    /\ num_domains = 3
    /\ batch_size = 6
    /\ y_all = <<<<0, 1>>, <<2, 3>>, <<4, 5>>>>
    /\ labels_all = y_all
    /\ f_all = y_all

\* ---- helpers for stating the claims about the factory
MixStages == {"layer1", "layer2", "layer3"}
GivenNames == {mix_layers.list[k] : k \in 1..Len(mix_layers.list)}
InsertionSet == {apply_layers[k] : k \in 1..Len(apply_layers)}
IsStage(x) == x # "mixStyleModule"
MixCalls == {q \in 1..Len(trace) : trace[q] = "mixStyleModule"}

\* C6: forward() runs conv1, bn1, relu (unless the class is ReidResNet),
\* maxpool, layer1..layer4 in this order and calls the mixing transform right
\* after layerN, N in 1..3, exactly when layerN is in the insertion set; the
\* number of mixing calls is the number of distinct names in the set.
C6_ForwardOrder ==
    npc = "forwarded" =>
        /\ SelectSeq(trace, IsStage)
             = IF resnet_class = "ReidResNet"
                  THEN <<"conv1", "bn1", "maxpool",
                         "layer1", "layer2", "layer3", "layer4">>
                  ELSE <<"conv1", "bn1", "relu", "maxpool",
                         "layer1", "layer2", "layer3", "layer4">>
        /\ \A q \in MixCalls : q > 1 /\ trace[q - 1] \in InsertionSet \cap MixStages
        /\ \A q \in 1..Len(trace) :
              trace[q] \in InsertionSet \cap MixStages =>
                  q < Len(trace) /\ trace[q + 1] = "mixStyleModule"
        /\ Cardinality(MixCalls) = Cardinality(InsertionSet)
        /\ InsertionSet = {"layer2"} =>
              \E q \in 2..Len(trace) : MixCalls = {q} /\ trace[q - 1] = "layer2"

C6_Witness ==
    /\ npc = "forwarded"
    /\ apply_layers = <<"layer2", "layer2">>
    /\ resnet_class = "ReidResNet"
    /\ trace = <<"conv1", "bn1", "maxpool", "layer1", "layer2",
                 "mixStyleModule", "layer3", "layer4">>

ValidArgs ==
    /\ resnet_class \in {"ResNet", "ReidResNet"}
    /\ GivenNames \subseteq {"layer1", "layer2", "layer3"}

\* C7: an unsupported backbone class or an insertion name outside layer1,
\* layer2, layer3 ends in an AssertionError with no model built or returned
\* and no weight fetched; otherwise no assertion fails and the model's
\* insertion list is the list given (empty for None).
C7_AssertionsGuardFactory ==
    /\ ~ValidArgs =>
          /\ npc \in {"start", "construct", "raised"}
          /\ npc = "raised" => raised = "AssertionError"
          /\ npc # "raised" => raised = "none"
          /\ fetches = 0
          /\ params = <<>>
    /\ resnet_class \notin {"ResNet", "ReidResNet"} => npc # "construct"
    /\ ValidArgs =>
          /\ raised # "AssertionError"
          /\ npc \in {"built", "returned", "forwarded"} =>
                /\ apply_layers = mix_layers.list
                /\ ~mix_layers.none

C7_Witness ==
    /\ npc = "raised"
    /\ raised = "AssertionError"
    /\ resnet_class = "ResNet"
    /\ mix_layers.list = <<"layer1", "layer4">>
    /\ pretrained
    /\ fetches = 0

\* C8: with pretrained set, the keys handed to load_state_dict are the
\* reference keys the model has, every such parameter takes the reference
\* value, every other parameter of the model keeps its constructed value and
\* the load does not raise; without it nothing is fetched or changed.
C8_PretrainedLoadsIntersection ==
    /\ raised # "RuntimeError"
    /\ npc \in {"start", "construct", "built"} => fetches = 0 /\ loaded = {}
    /\ npc = "built" => params = [k \in model_keys |-> "constructed"]
    /\ (npc \in {"returned", "forwarded"} /\ pretrained) =>
          /\ fetches = 1
          /\ loaded = registry \cap model_keys
          /\ DOMAIN params = model_keys
          /\ \A k \in model_keys :
                params[k] = IF k \in registry THEN "pretrained" ELSE "constructed"
    /\ (npc \in {"returned", "forwarded"} /\ ~pretrained) =>
          /\ fetches = 0
          /\ loaded = {}
          /\ params = [k \in model_keys |-> "constructed"]

C8_Witness ==
    /\ npc = "returned"
    /\ pretrained
    /\ model_keys = {"conv1.weight", "mixStyleModule.state"}
    /\ registry = {"conv1.weight", "fc.weight"}
    /\ params["conv1.weight"] = "pretrained"
    /\ params["mixStyleModule.state"] = "constructed"
    /\ loaded = {"conv1.weight"}

\* ---- helpers for stating the claim about the final evaluation
\* some epoch of this run had a validation accuracy above the initial best, 0
SomeEpochAboveZero == \E k \in 1..Len(hist) : FracLess(Zero, hist[k].acc)
\* no epoch is between its validation and its promotion
BetweenEpochs == pc \notin {"save_latest", "promote"}

\* C11: in a train-phase run the final target accuracy is computed on the
\* weights loaded from 'best'; this run writes 'best' exactly when some epoch's
\* validation accuracy exceeded 0; so when none did (also with zero epochs)
\* the final load is reached with no 'best' written by this run, and it
\* succeeds exactly when an earlier run left a 'best' file.
C11_FinalLoadOfBest ==
    /\ [](phase = "train" =>
            /\ BetweenEpochs => ("best" \in written <=> SomeEpochAboveZero)
            /\ pc \in {"final_eval", "done"} =>
                  /\ ckpt.best # NoFile
                  /\ weights = ckpt.best
                  /\ SomeEpochAboveZero \/ ckpt.best = PriorBest
            /\ pc = "done" => evaluated = <<ckpt.best>>
            /\ (pc = "final_load" /\ ~SomeEpochAboveZero) =>
                  /\ "best" \notin written
                  /\ ckpt.best \in {NoFile, PriorBest})
    /\ [][(phase = "train" /\ pc = "final_load") =>
            /\ pc' = "crashed" <=> ckpt.best = NoFile
            /\ pc' = "final_eval" <=> ckpt.best # NoFile
            /\ ckpt' = ckpt
            /\ written' = written]_vars

C11_Witness ==
    /\ phase = "train"
    /\ pc = "done"
    /\ epochs = 2
    /\ Len(hist) = 2
    /\ ~SomeEpochAboveZero
    /\ "best" \notin written
    /\ "latest" \in written
    /\ ckpt.best = PriorBest
    /\ ckpt.latest = 4
    /\ evaluated = <<PriorBest>>

\* a run whose epochs never exceed 0 and that finds no earlier 'best' stops
\* at the final load
C11_WitnessNoFile ==
    /\ phase = "train"
    /\ pc = "crashed"
    /\ epoch = epochs
    /\ ~SomeEpochAboveZero
    /\ ckpt.best = NoFile

====
